---- MODULE Spec2Model ----
(***************************************************************************)
(* Model of bear-http (src/lib/index.js, lines 196-413): the per-exchange  *)
(* lifecycle of requestListener and the body-writing protocol of           *)
(* writeResponse / writeResponseBody / cleanUpResponse.                    *)
(*                                                                         *)
(* The node ServerResponse is a record `res[e]`.  `bytes` are the bytes    *)
(* the core hands to the transport through write()/end(); `commits` is the *)
(* status line and header block at the moment the headers are flushed.     *)
(***************************************************************************)
EXTENDS Integers, Sequences, FiniteSets, TLC

VARIABLES options, pc, res, request, response, error, rejected, src,
          onErrorLog, log, calls, entry

vars == <<options, pc, res, request, response, error, rejected, src,
          onErrorLog, log, calls, entry>>

(* ------------------------------ bounds --------------------------------- *)
NumExchanges == 2
MaxLen == 2
MaxChunks == 2
MaxCalls == 2

Exchanges == 1..NumExchanges

(* ----------------------------- small values ---------------------------- *)
Methods == {"GET", "HEAD"}

\* code points a text body is made of: 'o' and U+00E9 (two bytes in UTF-8)
Chars == {111, 233}
\* bytes a fixed binary body or a stream chunk is made of
Bytes == {7, 200}

SeqsUpTo(S, n) == UNION {[1..k -> S] : k \in 0..n}

(* Buffer.from(string): the UTF-8 encoding of each code point *)
Utf8(c) == IF c < 128 THEN <<c>> ELSE <<192 + (c \div 64), 128 + (c % 64)>>

RECURSIVE BufferFrom(_)
BufferFrom(string) ==
    IF string = <<>> THEN <<>> ELSE Utf8(Head(string)) \o BufferFrom(Tail(string))

(* ------------------------------ responses ------------------------------ *)
\* status 0 stands for `undefined`
Body(shape, text, data, chunks, failAt) ==
    [shape |-> shape, text |-> text, data |-> data, chunks |-> chunks, failAt |-> failAt]

AbsentBodies == {Body(s, <<>>, <<>>, <<>>, 0) : s \in {"undefined", "null"}}
TextBodies   == {Body("text", t, <<>>, <<>>, 0) : t \in SeqsUpTo(Chars, MaxLen)}
BufferBodies == {Body("buffer", <<>>, d, <<>>, 0) : d \in SeqsUpTo(Bytes, MaxLen)}
\* a byte stream delivers the chunks <<1, 101>>, <<2, 102>>, ... in order;
\* failAt = k > 0: the source errors instead of delivering chunk k (k = n + 1:
\* instead of ending); failAt = 0: it ends normally
StreamChunks(n) == [i \in 1..n |-> <<i, 100 + i>>]
StreamBodies == UNION {{Body("stream", <<>>, <<>>, StreamChunks(n), f) : f \in 0..(n + 1)} :
                          n \in 0..MaxChunks}
\* a web ReadableStream, which writeResponseBody wraps with Readable.fromWeb
WebStreamBodies == {Body("webstream", <<>>, <<>>, StreamChunks(1), f) : f \in 0..1}
UnknownBodies == {Body("unknown", <<>>, <<>>, <<>>, 0)}

Bodies == AbsentBodies \cup TextBodies \cup BufferBodies \cup StreamBodies \cup
          WebStreamBodies \cup UnknownBodies

HandlerHeaders ==
    { <<>>,
      [k \in {"content-type"} |-> "text/html"],
      [k \in {"content-length"} |-> 99],
      [k \in {"x-custom"} |-> "1"],
      ("content-type" :> "text/html") @@ ("content-length" :> 99) }

Undefined == [defined |-> FALSE, status |-> 0, headers |-> <<>>,
              body |-> Body("undefined", <<>>, <<>>, <<>>, 0)]

Responses == {Undefined} \cup
    {[defined |-> TRUE, status |-> s, headers |-> h, body |-> b] :
        s \in {0, 201}, h \in HandlerHeaders, b \in Bodies}

(* ------------------------ the transport (ServerResponse) --------------- *)
NewResponse(m) ==
    [method |-> m, statusCode |-> 200, headers |-> <<>>,
     headersSent |-> FALSE, writableEnded |-> FALSE, writableFinished |-> FALSE,
     closed |-> FALSE, bytes |-> <<>>, commits |-> <<>>,
     endCalls |-> 0, endAfterEnd |-> FALSE, lateSet |-> FALSE]

HasHeader(r, k) == k \in DOMAIN r.headers

\* the header block goes out once, with the status that is set at that moment
FlushHeaders(r) ==
    IF r.headersSent THEN r
    ELSE [r EXCEPT !.headersSent = TRUE,
                   !.commits = Append(@, [statusCode |-> r.statusCode,
                                          headers |-> r.headers])]

\* nodeResponse.setHeader(k, v); after the headers are sent node refuses it
SetHeader(r, k, v) ==
    IF r.headersSent THEN [r EXCEPT !.lateSet = TRUE]
    ELSE [r EXCEPT !.headers = (k :> v) @@ @]

\* nodeResponse.statusCode = s
SetStatus(r, s) ==
    IF r.headersSent THEN [r EXCEPT !.lateSet = TRUE]
    ELSE [r EXCEPT !.statusCode = s]

\* nodeResponse.getHeaderNames().map(h => nodeResponse.removeHeader(h))
RemoveAllHeaders(r) == [r EXCEPT !.headers = <<>>]

\* nodeResponse.write(chunk)
Write(r, chunk) == [FlushHeaders(r) EXCEPT !.bytes = @ \o chunk]

\* nodeResponse.end(chunk)
End(r, chunk) ==
    IF r.writableEnded
    THEN [r EXCEPT !.endCalls = @ + 1, !.endAfterEnd = TRUE]
    ELSE [FlushHeaders(r) EXCEPT !.bytes = @ \o chunk,
                                 !.writableEnded = TRUE,
                                 !.endCalls = @ + 1]

\* finished(nodeResponse, ...): "resolve" on finish, "reject" on a close that
\* came before finish, otherwise still pending
Finished(r) ==
    IF r.writableFinished THEN "resolve"
    ELSE IF r.closed THEN "reject"
    ELSE "pending"

(* ------------------------- the byte-stream source ----------------------- *)
NoSource == [pos |-> 0, state |-> "none"]
SourceOf(resp) ==
    IF resp.body.shape \in {"stream", "webstream"}
    THEN [pos |-> 0, state |-> "idle"] ELSE NoSource

(* --------------------------- writeResponse ------------------------------ *)
RECURSIVE ApplyHeaders(_, _)
\* for (let key in headers) nodeResponse.setHeader(key, headers[key])
ApplyHeaders(r, headers) ==
    IF DOMAIN headers = {} THEN r
    ELSE LET key == CHOOSE k \in DOMAIN headers : TRUE
             rest == [k \in DOMAIN headers \ {key} |-> headers[k]]
         IN ApplyHeaders(SetHeader(r, key, headers[key]), rest)

HasBody(resp) == resp.body.shape \notin {"undefined", "null"}

\* as ChooseStatus, but defaulting to 200 whatever the method and body
ChooseStatus_Always200(r, resp) ==
    IF resp.status # 0 THEN resp.status ELSE 200

\* the status writeResponse chooses
ChooseStatus(r, resp) ==
    IF resp.status # 0 THEN resp.status
    ELSE IF r.method = "HEAD" \/ ~HasBody(resp) THEN 204
    ELSE 200

\* as StageResponse, but without looking at headersSent
StageResponse_Unguarded(r, resp) ==
    ApplyHeaders(SetStatus(r, ChooseStatus(r, resp)), resp.headers)

\* writeResponse, the block under `if (!nodeResponse.headersSent)`
StageResponse(r, resp) ==
    IF ~r.headersSent
    THEN ApplyHeaders(SetStatus(r, ChooseStatus(r, resp)), resp.headers)
    ELSE r

(* ------------------------------ body writers ---------------------------- *)
\* as WriteBufferResponseBody, but testing for HEAD before the headers are defaulted
WriteBufferResponseBody_HeadFirst(r, buffer) ==
    IF r.method = "HEAD" THEN End(r, <<>>)
    ELSE LET r1 == IF ~r.headersSent /\ ~HasHeader(r, "content-length")
                   THEN SetHeader(r, "content-length", Len(buffer)) ELSE r
             r2 == IF ~r1.headersSent /\ ~HasHeader(r1, "content-type")
                   THEN SetHeader(r1, "content-type", "application/octet-stream") ELSE r1
         IN End(r2, buffer)

WriteBufferResponseBody(r, buffer) ==
    LET r1 == IF ~r.headersSent /\ ~HasHeader(r, "content-length")
              THEN SetHeader(r, "content-length", Len(buffer)) ELSE r
        r2 == IF ~r1.headersSent /\ ~HasHeader(r1, "content-type")
              THEN SetHeader(r1, "content-type", "application/octet-stream") ELSE r1
    IN IF r2.method = "HEAD" THEN End(r2, <<>>) ELSE End(r2, buffer)

\* as WriteStringResponseBody, but setting content-type without looking
WriteStringResponseBody_Override(r, string) ==
    WriteBufferResponseBody(SetHeader(r, "content-type", "text/plain"), BufferFrom(string))

\* as WriteStringResponseBody, but taking content-length from string.length
WriteStringResponseBody_CharCount(r, string) ==
    LET r1 == IF ~r.headersSent /\ ~HasHeader(r, "content-type")
              THEN SetHeader(r, "content-type", "text/plain") ELSE r
        r2 == IF ~r1.headersSent /\ ~HasHeader(r1, "content-length")
              THEN SetHeader(r1, "content-length", Len(string)) ELSE r1
    IN WriteBufferResponseBody(r2, BufferFrom(string))

WriteStringResponseBody(r, string) ==
    LET r1 == IF ~r.headersSent /\ ~HasHeader(r, "content-type")
              THEN SetHeader(r, "content-type", "text/plain") ELSE r
    IN WriteBufferResponseBody(r1, BufferFrom(string))

\* as WriteStreamResponseBody, but defaulting content-type without looking at
\* headersSent
WriteStreamResponseBody_NoSentCheck(r) ==
    LET r1 == IF ~HasHeader(r, "content-type")
              THEN SetHeader(r, "content-type", "application/octet-stream") ELSE r
    IN IF r1.method = "HEAD"
       THEN [r |-> End(r1, <<>>), out |-> "returned"]
       ELSE [r |-> r1, out |-> "pipe"]

\* writeStreamResponseBody up to `await pipeline(...)`
WriteStreamResponseBody(r) ==
    LET r1 == IF ~r.headersSent /\ ~HasHeader(r, "content-type")
              THEN SetHeader(r, "content-type", "application/octet-stream") ELSE r
    IN IF r1.method = "HEAD"
       THEN [r |-> End(r1, <<>>), out |-> "returned"]
       ELSE [r |-> r1, out |-> "pipe"]

\* as WriteResponseBody, but treating a body of unknown type as absent
WriteResponseBody_UnknownAsAbsent(r, body) ==
    CASE body.shape = "text"   -> [r |-> WriteStringResponseBody(r, body.text), out |-> "returned"]
      [] body.shape = "buffer" -> [r |-> WriteBufferResponseBody(r, body.data), out |-> "returned"]
      [] body.shape = "webstream" -> WriteStreamResponseBody(r)
      [] body.shape = "stream" -> WriteStreamResponseBody(r)
      [] OTHER                 -> [r |-> End(r, <<>>), out |-> "returned"]

\* writeResponseBody: out is "returned", "pipe" (suspended in pipeline) or "throw"
WriteResponseBody(r, body) ==
    CASE body.shape \in {"undefined", "null"} -> [r |-> End(r, <<>>), out |-> "returned"]
      [] body.shape = "text"   -> [r |-> WriteStringResponseBody(r, body.text), out |-> "returned"]
      [] body.shape = "buffer" -> [r |-> WriteBufferResponseBody(r, body.data), out |-> "returned"]
      [] body.shape = "webstream" -> WriteStreamResponseBody(r)
      [] body.shape = "stream" -> WriteStreamResponseBody(r)
      [] OTHER                 -> [r |-> r, out |-> "throw"]

\* a body writer passed as options.writeResponseBody is opaque: it may end the
\* transport, return without ending it (having written nothing, or a chunk),
\* or throw
CustomWriteBody(r, behaviour) ==
    CASE behaviour = "ends"   -> [r |-> End(r, <<>>), out |-> "returned"]
      [] behaviour = "leaves" -> [r |-> r, out |-> "returned"]
      [] behaviour = "writes" -> [r |-> Write(r, <<7>>), out |-> "returned"]
      [] OTHER                -> [r |-> r, out |-> "throw"]

(* ---------------------------- cleanUpResponse --------------------------- *)
\* as CleanUpSync, but leaving the staged headers in place
CleanUpSync_KeepHeaders(r) ==
    LET r1 == IF ~r.headersSent THEN SetStatus(r, 500) ELSE r
    IN IF ~r1.writableEnded THEN End(r1, <<>>) ELSE r1

\* as CleanUpSync, but ending the transport only when no header was sent
CleanUpSync_EndOnlyUnsent(r) ==
    IF ~r.headersSent THEN End(RemoveAllHeaders(SetStatus(r, 500)), <<>>) ELSE r

\* as CleanUpSync, but calling end without looking at writableEnded
CleanUpSync_AlwaysEnd(r) ==
    LET r1 == IF ~r.headersSent THEN RemoveAllHeaders(SetStatus(r, 500)) ELSE r
    IN End(r1, <<>>)

\* as CleanUpSync, but forcing 500 and removing the headers without looking
\* at headersSent
CleanUpSync_Always500(r) ==
    LET r1 == RemoveAllHeaders(SetStatus(r, 500))
    IN IF ~r1.writableEnded THEN End(r1, <<>>) ELSE r1

\* cleanUpResponse up to `await finished(...)`
CleanUpSync(r) ==
    LET r1 == IF ~r.headersSent THEN RemoveAllHeaders(SetStatus(r, 500)) ELSE r
    IN IF ~r1.writableEnded THEN End(r1, <<>>) ELSE r1

(* ------------------------------ bookkeeping ----------------------------- *)
DefaultOptions ==
    [parseRequest |-> "default", writeResponseBody |-> "default",
     cleanUpResponse |-> "default", onError |-> "default", mode |-> "listener"]

\* createRequestListener(handlerFn, options): the defaults, or one of them replaced
OptionSets ==
    {DefaultOptions,
     [DefaultOptions EXCEPT !.parseRequest = "custom"],
     [DefaultOptions EXCEPT !.writeResponseBody = "custom"],
     [DefaultOptions EXCEPT !.cleanUpResponse = "custom"],
     [DefaultOptions EXCEPT !.onError = "custom"],
     [DefaultOptions EXCEPT !.onError = "unset"]}

Direct == options.mode = "direct"

NoCalls == [write |-> 0, cleanUp |-> 0, fn |-> "none", last |-> "none"]

\* where control goes when writeResponse / cleanUpResponse settles
AfterWriteOk   == IF Direct THEN "Direct" ELSE "Written"
AfterWriteFail == IF Direct THEN "Direct" ELSE "Failed"
AfterCleanOk   == IF Direct THEN "Direct" ELSE "Finalized"
AfterCleanFail == IF Direct THEN "Direct" ELSE "Rejected"
\* the response argument of a direct call goes out of scope when the call settles
Return(resp) == IF Direct THEN Undefined ELSE resp

Init ==
    /\ options \in OptionSets
    /\ pc = [e \in Exchanges |-> IF e = 1 THEN "Received" ELSE "Idle"]
    /\ \E m \in Methods : res = [e \in Exchanges |-> NewResponse(m)]
    /\ request = [e \in Exchanges |-> "undefined"]
    /\ response = [e \in Exchanges |-> Undefined]
    /\ error = [e \in Exchanges |-> "none"]
    /\ rejected = [e \in Exchanges |-> "none"]
    /\ src = [e \in Exchanges |-> NoSource]
    /\ onErrorLog = [e \in Exchanges |-> <<>>]
    /\ log = [e \in Exchanges |-> <<>>]
    /\ calls = [e \in Exchanges |-> NoCalls]
    /\ entry = res

(* ---------------------------- requestListener --------------------------- *)
\* request = await parseRequest(nodeRequest, nodeResponse)
ParseRequest(e) ==
    /\ pc[e] = "Received"
    /\ \E ok \in (IF options.parseRequest = "default" THEN {TRUE} ELSE BOOLEAN) :
         IF ok
         THEN /\ request' = [request EXCEPT ![e] = "defined"]
              /\ pc' = [pc EXCEPT ![e] = "Adapted"]
              /\ error' = error
         ELSE /\ request' = request
              /\ pc' = [pc EXCEPT ![e] = "Failed"]
              /\ error' = [error EXCEPT ![e] = "parse"]
    /\ log' = [log EXCEPT ![e] = Append(@, "parseRequest")]
    /\ UNCHANGED <<options, res, response, rejected, src, onErrorLog, calls, entry>>

\* handlerFn(request) is called
InvokeHandler(e) ==
    /\ pc[e] = "Adapted"
    /\ pc' = [pc EXCEPT ![e] = "Handling"]
    /\ log' = [log EXCEPT ![e] = Append(@, "handlerFn")]
    /\ UNCHANGED <<options, res, request, response, error, rejected, src, onErrorLog, calls, entry>>

\* the handler reaches the raw response through request.nodeResponse (as does a
\* caller that drives writeResponse / cleanUpResponse itself)
HandlerSetHeader(e) ==
    /\ pc[e] \in {"Handling", "Direct"}
    /\ ~res[e].headersSent
    /\ ~HasHeader(res[e], "x-partial")
    /\ res' = [res EXCEPT ![e] = SetHeader(@, "x-partial", "1")]
    /\ UNCHANGED <<options, pc, request, response, error, rejected, src, onErrorLog, log, calls, entry>>

HandlerWriteHead(e) ==
    /\ pc[e] \in {"Handling", "Direct"}
    /\ ~res[e].headersSent
    /\ res' = [res EXCEPT ![e] = FlushHeaders(SetStatus(@, 202))]
    /\ UNCHANGED <<options, pc, request, response, error, rejected, src, onErrorLog, log, calls, entry>>

HandlerEnd(e) ==
    /\ pc[e] \in {"Handling", "Direct"}
    /\ ~res[e].writableEnded
    /\ res' = [res EXCEPT ![e] = End(@, <<>>)]
    /\ UNCHANGED <<options, pc, request, response, error, rejected, src, onErrorLog, log, calls, entry>>

\* the responses a handler returns when several exchanges are in flight
ConcResponses ==
    {Undefined,
     [defined |-> TRUE, status |-> 201, headers |-> [k \in {"x-custom"} |-> "1"],
      body |-> Body("text", <<111, 233>>, <<>>, <<>>, 0)],
     [defined |-> TRUE, status |-> 0, headers |-> <<>>,
      body |-> Body("stream", <<>>, <<>>, StreamChunks(2), 0)],
     [defined |-> TRUE, status |-> 0, headers |-> [k \in {"content-type"} |-> "text/html"],
      body |-> Body("stream", <<>>, <<>>, StreamChunks(2), 2)],
     [defined |-> TRUE, status |-> 201, headers |-> [k \in {"content-length"} |-> 99],
      body |-> Body("unknown", <<>>, <<>>, <<>>, 0)]}

HandlerResponses == IF options.mode = "concurrent" THEN ConcResponses ELSE Responses

\* as HandlerReturn, but with `response` declared once for all invocations of
\* requestListener instead of inside it
HandlerReturn_Shared(e) ==
    /\ pc[e] = "Handling"
    /\ \E resp \in HandlerResponses :
         /\ response' = [f \in Exchanges |-> resp]
         /\ src' = [src EXCEPT ![e] = SourceOf(resp)]
    /\ pc' = [pc EXCEPT ![e] = "Handled"]
    /\ UNCHANGED <<options, res, request, error, rejected, onErrorLog, log, calls, entry>>

\* response = await handlerFn(request)
HandlerReturn(e) ==
    /\ pc[e] = "Handling"
    /\ \E resp \in HandlerResponses :
         /\ response' = [response EXCEPT ![e] = resp]
         /\ src' = [src EXCEPT ![e] = SourceOf(resp)]
    /\ pc' = [pc EXCEPT ![e] = "Handled"]
    /\ UNCHANGED <<options, res, request, error, rejected, onErrorLog, log, calls, entry>>

\* as HandlerRaise, but carrying on to writeResponse
HandlerRaise_Swallowed(e) ==
    /\ pc[e] = "Handling"
    /\ pc' = [pc EXCEPT ![e] = "Handled"]
    /\ error' = [error EXCEPT ![e] = "handler"]
    /\ UNCHANGED <<options, res, request, response, rejected, src, onErrorLog, log, calls, entry>>

\* handlerFn(request) throws, or the promise it returned rejects
HandlerRaise(e) ==
    /\ pc[e] = "Handling"
    /\ pc' = [pc EXCEPT ![e] = "Failed"]
    /\ error' = [error EXCEPT ![e] = "handler"]
    /\ UNCHANGED <<options, res, request, response, rejected, src, onErrorLog, log, calls, entry>>

(* ----------------------------- writeResponse ---------------------------- *)
\* writeResponse from its entry to its first suspension: stage status and
\* headers, then run the body writer unless the transport is already ended
WriteResponseBegin(e) ==
    /\ pc[e] = "Handled"
    /\ log' = [log EXCEPT ![e] = Append(@, "writeResponse")]
    /\ entry' = [entry EXCEPT ![e] = res[e]]
    /\ LET r1 == StageResponse(res[e], response[e])
       IN IF r1.writableEnded
          THEN /\ res' = [res EXCEPT ![e] = r1]
               /\ pc' = [pc EXCEPT ![e] = "AwaitFinished"]
               /\ UNCHANGED <<error, src, calls, response>>
          ELSE \E behaviour \in (IF options.writeResponseBody = "default"
                                 THEN {"default"} ELSE {"ends", "leaves", "writes", "throws"}) :
                 LET w == IF behaviour = "default"
                          THEN WriteResponseBody(r1, response[e].body)
                          ELSE CustomWriteBody(r1, behaviour)
                 IN /\ res' = [res EXCEPT ![e] = w.r]
                    /\ CASE w.out = "returned" ->
                              /\ pc' = [pc EXCEPT ![e] = "AfterBody"]
                              /\ UNCHANGED <<error, src, calls, response>>
                         [] w.out = "pipe" ->
                              /\ pc' = [pc EXCEPT ![e] = "Piping"]
                              /\ src' = [src EXCEPT ![e].state = "flowing"]
                              /\ UNCHANGED <<error, calls, response>>
                         [] OTHER ->
                              /\ pc' = [pc EXCEPT ![e] = AfterWriteFail]
                              /\ error' = [error EXCEPT ![e] =
                                    IF behaviour = "default" THEN "body-type" ELSE "writer"]
                              /\ calls' = [calls EXCEPT ![e].last = "rejected"]
                              /\ response' = [response EXCEPT ![e] = Return(@)]
                              /\ src' = src
    /\ UNCHANGED <<options, request, rejected, onErrorLog>>

\* as WriteResponseAfterBody, but ending the transport without looking
WriteResponseAfterBody_Unguarded(e) ==
    /\ pc[e] = "AfterBody"
    /\ res' = [res EXCEPT ![e] = End(@, <<>>)]
    /\ pc' = [pc EXCEPT ![e] = "AwaitFinished"]
    /\ UNCHANGED <<options, request, response, error, rejected, src, onErrorLog, log, calls, entry>>

\* as WriteResponseAfterBody, but leaving the ending to the body writer
WriteResponseAfterBody_NoEnd(e) ==
    /\ pc[e] = "AfterBody"
    /\ pc' = [pc EXCEPT ![e] = "AwaitFinished"]
    /\ UNCHANGED <<options, res, request, response, error, rejected, src, onErrorLog, log, calls, entry>>

\* after `await _writeBody(...)`: if (!nodeResponse.writableEnded) nodeResponse.end()
WriteResponseAfterBody(e) ==
    /\ pc[e] = "AfterBody"
    /\ res' = [res EXCEPT ![e] = IF ~@.writableEnded THEN End(@, <<>>) ELSE @]
    /\ pc' = [pc EXCEPT ![e] = "AwaitFinished"]
    /\ UNCHANGED <<options, request, response, error, rejected, src, onErrorLog, log, calls, entry>>

\* await finished(nodeResponse, { cleanup: true })
WriteResponseFinished(e) ==
    /\ pc[e] = "AwaitFinished"
    /\ Finished(res[e]) # "pending"
    /\ IF Finished(res[e]) = "resolve"
       THEN /\ pc' = [pc EXCEPT ![e] = AfterWriteOk]
            /\ calls' = [calls EXCEPT ![e].last = "resolved"]
            /\ error' = error
       ELSE /\ pc' = [pc EXCEPT ![e] = AfterWriteFail]
            /\ calls' = [calls EXCEPT ![e].last = "rejected"]
            /\ error' = [error EXCEPT ![e] = "transport"]
    /\ response' = [response EXCEPT ![e] = Return(@)]
    /\ UNCHANGED <<options, res, request, rejected, src, onErrorLog, log, entry>>

(* ------------------- pipeline(stream, nodeResponse) --------------------- *)
SourceFails(e) == response[e].body.failAt = src[e].pos + 1

\* one chunk of the source is written to the transport
PipeChunk(e) ==
    /\ pc[e] = "Piping"
    /\ src[e].state = "flowing"
    /\ ~res[e].closed
    /\ src[e].pos < Len(response[e].body.chunks)
    /\ ~SourceFails(e)
    /\ res' = [res EXCEPT ![e] = Write(@, response[e].body.chunks[src[e].pos + 1])]
    /\ src' = [src EXCEPT ![e].pos = @ + 1]
    /\ UNCHANGED <<options, pc, request, response, error, rejected, onErrorLog, log, calls, entry>>

\* the source ends: pipeline ends the transport
PipeSourceEnd(e) ==
    /\ pc[e] = "Piping"
    /\ src[e].state = "flowing"
    /\ ~res[e].closed
    /\ src[e].pos = Len(response[e].body.chunks)
    /\ ~SourceFails(e)
    /\ res' = [res EXCEPT ![e] = End(@, <<>>)]
    /\ src' = [src EXCEPT ![e].state = "ended"]
    /\ UNCHANGED <<options, pc, request, response, error, rejected, onErrorLog, log, calls, entry>>

\* as PipeSourceError, but leaving the transport open, as stream.pipe() does
PipeSourceError_NoAbort(e) ==
    /\ pc[e] = "Piping"
    /\ src[e].state = "flowing"
    /\ ~res[e].closed
    /\ SourceFails(e)
    /\ src' = [src EXCEPT ![e].state = "errored"]
    /\ pc' = [pc EXCEPT ![e] = AfterWriteFail]
    /\ error' = [error EXCEPT ![e] = "source"]
    /\ calls' = [calls EXCEPT ![e].last = "rejected"]
    /\ response' = [response EXCEPT ![e] = Return(@)]
    /\ UNCHANGED <<options, res, request, rejected, onErrorLog, log, entry>>

\* the source errors: pipeline destroys the transport and rejects
PipeSourceError(e) ==
    /\ pc[e] = "Piping"
    /\ src[e].state = "flowing"
    /\ ~res[e].closed
    /\ SourceFails(e)
    /\ res' = [res EXCEPT ![e].closed = TRUE]
    /\ src' = [src EXCEPT ![e].state = "errored"]
    /\ pc' = [pc EXCEPT ![e] = AfterWriteFail]
    /\ error' = [error EXCEPT ![e] = "source"]
    /\ calls' = [calls EXCEPT ![e].last = "rejected"]
    /\ response' = [response EXCEPT ![e] = Return(@)]
    /\ UNCHANGED <<options, request, rejected, onErrorLog, log, entry>>

\* the transport closed before it finished: pipeline destroys the source and rejects
PipeDestClosed(e) ==
    /\ pc[e] = "Piping"
    /\ res[e].closed
    /\ ~res[e].writableFinished
    /\ src' = [src EXCEPT ![e].state = IF @ = "flowing" THEN "destroyed" ELSE @]
    /\ pc' = [pc EXCEPT ![e] = AfterWriteFail]
    /\ error' = [error EXCEPT ![e] = "transport"]
    /\ calls' = [calls EXCEPT ![e].last = "rejected"]
    /\ response' = [response EXCEPT ![e] = Return(@)]
    /\ UNCHANGED <<options, res, request, rejected, onErrorLog, log, entry>>

\* the transport finished after the source ended: pipeline resolves
PipelineResolve(e) ==
    /\ pc[e] = "Piping"
    /\ src[e].state = "ended"
    /\ res[e].writableFinished
    /\ pc' = [pc EXCEPT ![e] = "AfterBody"]
    /\ UNCHANGED <<options, res, request, response, error, rejected, src, onErrorLog, log, calls, entry>>

(* ------------------------------ the catch block ------------------------- *)
\* await onError?.({ error, nodeRequest, nodeResponse, request, response });
\* the log keeps what the callback is handed, and the flags of the nodeResponse
\* it is handed, at the moment of the call
CallOnError(e) ==
    /\ pc[e] = "Failed"
    /\ IF options.onError = "unset"
       THEN /\ pc' = [pc EXCEPT ![e] = "CleanUp"]
            /\ UNCHANGED <<onErrorLog, log, rejected>>
       ELSE /\ onErrorLog' = [onErrorLog EXCEPT ![e] =
                   Append(@, [error |-> error[e], request |-> request[e],
                              response |-> response[e],
                              headersSent |-> res[e].headersSent,
                              writableEnded |-> res[e].writableEnded])]
            /\ log' = [log EXCEPT ![e] = Append(@, "onError")]
            /\ \E ok \in (IF options.onError = "default" THEN {TRUE} ELSE BOOLEAN) :
                 IF ok
                 THEN /\ pc' = [pc EXCEPT ![e] = "CleanUp"]
                      /\ rejected' = rejected
                 ELSE /\ pc' = [pc EXCEPT ![e] = "Rejected"]
                      /\ rejected' = [rejected EXCEPT ![e] = "onError"]
    /\ UNCHANGED <<options, res, request, response, error, src, calls, entry>>

\* await cleanUpResponse(nodeResponse), up to its suspension; a finalizer
\* passed as options.cleanUpResponse may throw instead
CleanUpBegin(e) ==
    /\ pc[e] = "CleanUp"
    /\ log' = [log EXCEPT ![e] = Append(@, "cleanUpResponse")]
    /\ entry' = [entry EXCEPT ![e] = res[e]]
    /\ \E ok \in (IF options.cleanUpResponse = "default" THEN {TRUE} ELSE BOOLEAN) :
         IF ok
         THEN /\ res' = [res EXCEPT ![e] = CleanUpSync(@)]
              /\ pc' = [pc EXCEPT ![e] = "AwaitCleanUp"]
              /\ UNCHANGED <<rejected, calls>>
         ELSE /\ pc' = [pc EXCEPT ![e] = AfterCleanFail]
              /\ rejected' = [rejected EXCEPT ![e] = "cleanUp"]
              /\ calls' = [calls EXCEPT ![e].last = "rejected"]
              /\ res' = res
    /\ UNCHANGED <<options, request, response, error, src, onErrorLog>>

\* await finished(nodeResponse, { cleanup: true, error: false })
CleanUpFinished(e) ==
    /\ pc[e] = "AwaitCleanUp"
    /\ Finished(res[e]) # "pending"
    /\ IF Finished(res[e]) = "resolve"
       THEN /\ pc' = [pc EXCEPT ![e] = AfterCleanOk]
            /\ calls' = [calls EXCEPT ![e].last = "resolved"]
            /\ rejected' = rejected
       ELSE /\ pc' = [pc EXCEPT ![e] = AfterCleanFail]
            /\ calls' = [calls EXCEPT ![e].last = "rejected"]
            /\ rejected' = [rejected EXCEPT ![e] = "transport"]
    /\ UNCHANGED <<options, res, request, response, error, src, onErrorLog, log, entry>>

(* ------------------------------ the transport --------------------------- *)
\* 'finish': everything handed to the transport has been flushed
TransportFinish(e) ==
    /\ pc[e] # "Idle"
    /\ res[e].writableEnded
    /\ ~res[e].writableFinished
    /\ ~res[e].closed
    /\ res' = [res EXCEPT ![e].writableFinished = TRUE]
    /\ UNCHANGED <<options, pc, request, response, error, rejected, src, onErrorLog, log, calls, entry>>

\* 'close': the connection is gone (after finish, or prematurely)
TransportClose(e) ==
    /\ pc[e] # "Idle"
    /\ ~res[e].closed
    /\ res' = [res EXCEPT ![e].closed = TRUE]
    /\ UNCHANGED <<options, pc, request, response, error, rejected, src, onErrorLog, log, calls, entry>>

Next ==
    \E e \in Exchanges :
        \/ ParseRequest(e)
        \/ InvokeHandler(e)
        \/ HandlerSetHeader(e)
        \/ HandlerWriteHead(e)
        \/ HandlerEnd(e)
        \/ HandlerReturn(e)
        \/ HandlerRaise(e)
        \/ WriteResponseBegin(e)
        \/ WriteResponseAfterBody(e)
        \/ WriteResponseFinished(e)
        \/ PipeChunk(e)
        \/ PipeSourceEnd(e)
        \/ PipeSourceError(e)
        \/ PipeDestClosed(e)
        \/ PipelineResolve(e)
        \/ CallOnError(e)
        \/ CleanUpBegin(e)
        \/ CleanUpFinished(e)
        \/ TransportFinish(e)
        \/ TransportClose(e)

Spec == Init /\ [][Next]_vars

(* --------------- writeResponse / cleanUpResponse called directly -------- *)
\* both are exported; here a caller drives them itself on one raw response
DirectBodies ==
    {Body("undefined", <<>>, <<>>, <<>>, 0),
     Body("text", <<111, 233>>, <<>>, <<>>, 0),
     Body("buffer", <<>>, <<7, 200>>, <<>>, 0),
     Body("stream", <<>>, <<>>, StreamChunks(2), 0),
     Body("stream", <<>>, <<>>, StreamChunks(2), 2),
     Body("unknown", <<>>, <<>>, <<>>, 0)}

DirectResponses == {Undefined} \cup
    {[defined |-> TRUE, status |-> s, headers |-> h, body |-> b] :
        s \in {0, 201},
        h \in {<<>>, ("content-type" :> "text/html") @@ ("content-length" :> 99)},
        b \in DirectBodies}

InitDirect ==
    /\ options = [DefaultOptions EXCEPT !.mode = "direct"]
    /\ pc = [e \in Exchanges |-> IF e = 1 THEN "Direct" ELSE "Idle"]
    /\ \E m \in Methods : res = [e \in Exchanges |-> NewResponse(m)]
    /\ request = [e \in Exchanges |-> "undefined"]
    /\ response = [e \in Exchanges |-> Undefined]
    /\ error = [e \in Exchanges |-> "none"]
    /\ rejected = [e \in Exchanges |-> "none"]
    /\ src = [e \in Exchanges |-> NoSource]
    /\ onErrorLog = [e \in Exchanges |-> <<>>]
    /\ log = [e \in Exchanges |-> <<>>]
    /\ calls = [e \in Exchanges |-> NoCalls]
    /\ entry = res

\* writeResponse(nodeResponse, response) is called
DirectWriteResponse(e) ==
    /\ pc[e] = "Direct"
    /\ calls[e].write + calls[e].cleanUp < MaxCalls
    /\ \E resp \in DirectResponses :
         /\ response' = [response EXCEPT ![e] = resp]
         /\ src' = [src EXCEPT ![e] = SourceOf(resp)]
    /\ calls' = [calls EXCEPT ![e].write = @ + 1, ![e].fn = "writeResponse",
                               ![e].last = "none"]
    /\ pc' = [pc EXCEPT ![e] = "Handled"]
    /\ UNCHANGED <<options, res, request, error, rejected, onErrorLog, log, entry>>

\* cleanUpResponse(nodeResponse) is called
DirectCleanUp(e) ==
    /\ pc[e] = "Direct"
    /\ calls[e].write + calls[e].cleanUp < MaxCalls
    /\ calls' = [calls EXCEPT ![e].cleanUp = @ + 1, ![e].fn = "cleanUpResponse",
                               ![e].last = "none"]
    /\ pc' = [pc EXCEPT ![e] = "CleanUp"]
    /\ UNCHANGED <<options, res, request, response, error, rejected, src, onErrorLog, log, entry>>

NextDirect ==
    \E e \in Exchanges :
        \/ DirectWriteResponse(e)
        \/ DirectCleanUp(e)
        \/ HandlerSetHeader(e)
        \/ HandlerWriteHead(e)
        \/ HandlerEnd(e)
        \/ WriteResponseBegin(e)
        \/ WriteResponseAfterBody(e)
        \/ WriteResponseFinished(e)
        \/ PipeChunk(e)
        \/ PipeSourceEnd(e)
        \/ PipeSourceError(e)
        \/ PipeDestClosed(e)
        \/ PipelineResolve(e)
        \/ CleanUpBegin(e)
        \/ CleanUpFinished(e)
        \/ TransportFinish(e)
        \/ TransportClose(e)

SpecDirect == InitDirect /\ [][NextDirect]_vars

(* --------------------- several exchanges in flight ---------------------- *)
\* the server calls requestListener once per request: every exchange has its
\* own nodeRequest / nodeResponse pair and its own method
InitConc ==
    /\ options = [DefaultOptions EXCEPT !.mode = "concurrent"]
    /\ pc = [e \in Exchanges |-> "Received"]
    /\ res \in [Exchanges -> {NewResponse(m) : m \in Methods}]
    /\ request = [e \in Exchanges |-> "undefined"]
    /\ response = [e \in Exchanges |-> Undefined]
    /\ error = [e \in Exchanges |-> "none"]
    /\ rejected = [e \in Exchanges |-> "none"]
    /\ src = [e \in Exchanges |-> NoSource]
    /\ onErrorLog = [e \in Exchanges |-> <<>>]
    /\ log = [e \in Exchanges |-> <<>>]
    /\ calls = [e \in Exchanges |-> NoCalls]
    /\ entry = res

\* the steps of the exchanges interleave at their suspension points; the
\* connections stay up and the handlers leave the raw response alone
NextConc ==
    \E e \in Exchanges :
        \/ ParseRequest(e)
        \/ InvokeHandler(e)
        \/ HandlerReturn(e)
        \/ HandlerRaise(e)
        \/ WriteResponseBegin(e)
        \/ WriteResponseAfterBody(e)
        \/ WriteResponseFinished(e)
        \/ PipeChunk(e)
        \/ PipeSourceEnd(e)
        \/ PipeSourceError(e)
        \/ PipelineResolve(e)
        \/ CallOnError(e)
        \/ CleanUpBegin(e)
        \/ CleanUpFinished(e)
        \/ TransportFinish(e)

SpecConc == InitConc /\ [][NextConc]_vars

(* ======================================================================= *)
(*                               properties                                *)
(* ======================================================================= *)
InLog(e, step) == \E i \in DOMAIN log[e] : log[e][i] = step

\* requestListener's promise has settled
Settled(e) == pc[e] \in {"Written", "Finalized", "Rejected"}

\* the transport has emitted a terminal event
Terminal(e) == res[e].writableFinished \/ res[e].closed

\* C1: every exchange whose handler returned or raised and whose transport has
\* emitted a terminal event has, once requestListener settled, an ended
\* transport and exactly one committed status line and header block.
C1_ExactlyOneResponse ==
    \A e \in Exchanges :
        (Settled(e) /\ Terminal(e)) =>
            /\ res[e].writableEnded
            /\ Len(res[e].commits) = 1

\* C2: under direct calls, a writeResponse that completed normally leaves the
\* transport ended, and no call (in particular no second writeResponse) calls
\* end on a transport that is already ended.
C2_WriteEndsOnce ==
    \A e \in Exchanges :
        /\ (pc[e] = "Direct" /\ calls[e].fn = "writeResponse" /\ calls[e].last = "resolved")
              => res[e].writableEnded
        /\ ~res[e].endAfterEnd
        /\ res[e].writableEnded => res[e].endCalls = 1

C2_Witness ==
    \E e \in Exchanges :
        /\ pc[e] = "Direct"
        /\ calls[e].write = 2 /\ calls[e].cleanUp = 0
        /\ calls[e].last = "resolved"
        /\ res[e].endCalls = 1

\* the handler raised while nothing had been sent on the transport
RaisedUnsent(e) ==
    /\ error[e] = "handler"
    /\ onErrorLog[e] # <<>>
    /\ ~onErrorLog[e][1].headersSent

\* C3: when the handler raised with nothing sent and the exchange's transport
\* has been ended, the status is 500, no header is set or was sent, no body
\* byte was written, and onError was invoked exactly once, with the handler's
\* error, the request defined and the response undefined.
C3_HandlerThrows500 ==
    \A e \in Exchanges :
        (RaisedUnsent(e) /\ res[e].writableEnded) =>
            /\ res[e].statusCode = 500
            /\ res[e].headers = <<>>
            /\ res[e].commits = <<[statusCode |-> 500, headers |-> <<>>]>>
            /\ res[e].bytes = <<>>
            /\ Len(onErrorLog[e]) = 1
            /\ onErrorLog[e][1].error = "handler"
            /\ onErrorLog[e][1].request = "defined"
            /\ ~onErrorLog[e][1].response.defined

C3_Witness ==
    \E e \in Exchanges :
        /\ RaisedUnsent(e)
        /\ pc[e] = "Finalized"
        /\ HasHeader(entry[e], "x-partial")
        /\ res[e].statusCode = 500

\* C4: requestListener never rejects because its finalizer failed.
C4_NeverReRaises ==
    \A e \in Exchanges : rejected[e] \notin {"cleanUp", "transport"}

\* C5: once requestListener has settled after a failure of parseRequest, the
\* handler, the body writer or the write step, cleanUpResponse has been invoked.
C5_FinalizerAlwaysInvoked ==
    \A e \in Exchanges :
        (Settled(e) /\ error[e] # "none") => InLog(e, "cleanUpResponse")

\* the handler raised after sending headers, with the transport not ended
RaisedAfterHeaders(e) ==
    /\ error[e] = "handler"
    /\ onErrorLog[e] # <<>>
    /\ onErrorLog[e][1].headersSent
    /\ ~onErrorLog[e][1].writableEnded

\* requestListener has settled after its catch block ran the finalizer
CatchRan(e) ==
    \/ pc[e] = "Finalized"
    \/ pc[e] = "Rejected" /\ rejected[e] = "transport"

\* C6: when the handler raised after sending headers, onError is never invoked
\* more than once, and once requestListener has settled after its catch block
\* ran through the error callback and the finalizer, onError has been invoked
\* exactly once and the transport is ended, by a single end.
C6_RaiseAfterHeaders ==
    \A e \in Exchanges :
        RaisedAfterHeaders(e) =>
            /\ Len(onErrorLog[e]) = 1
            /\ CatchRan(e) =>
                  /\ res[e].writableEnded
                  /\ res[e].endCalls = 1

C6_Witness ==
    \E e \in Exchanges :
        /\ RaisedAfterHeaders(e)
        /\ pc[e] = "Finalized"
        /\ res[e].writableEnded

\* writeResponse ran its body writer on a transport whose headers were unsent
WroteFresh(e) ==
    /\ options.mode = "listener"
    /\ options.writeResponseBody = "default"
    /\ pc[e] \in {"AfterBody", "AwaitFinished", "Written"}
    /\ ~entry[e].headersSent
    /\ response[e].body.shape # "unknown"

\* the headers the same response gets on the same transport under GET
HeadersUnderGet(e) ==
    LET g == [entry[e] EXCEPT !.method = "GET"]
    IN WriteResponseBody(StageResponse(g, response[e]), response[e].body).r.headers

\* C7: under HEAD, for every body shape, no body byte is handed to the
\* transport, and the headers set are those the same response gets under GET.
C7_HeadSuppressesBody ==
    \A e \in Exchanges :
        (WroteFresh(e) /\ res[e].method = "HEAD") =>
            /\ res[e].bytes = <<>>
            /\ res[e].headers = HeadersUnderGet(e)
            /\ res[e].commits = <<[statusCode |-> res[e].statusCode,
                                   headers |-> HeadersUnderGet(e)]>>

C7_Witness ==
    \E e \in Exchanges :
        /\ WroteFresh(e) /\ res[e].method = "HEAD"
        /\ pc[e] = "Written"
        /\ response[e].body.text = <<111, 233>>
        /\ res[e].headers["content-length"] = 3
        /\ res[e].bytes = <<>>

\* C8: when headers are unsent, the status writeResponse sets is
\* response.status if present, else 204 for HEAD or an absent body, else 200.
C8_StatusInference ==
    \A e \in Exchanges :
        (/\ options.mode = "listener"
         /\ pc[e] \in {"AfterBody", "Piping", "AwaitFinished", "Written"}
         /\ ~entry[e].headersSent) =>
            LET resp == response[e]
                absent == resp.body.shape \in {"undefined", "null"}
            IN /\ resp.status # 0 => res[e].statusCode = resp.status
               /\ (resp.status = 0 /\ (res[e].method = "HEAD" \/ absent))
                      => res[e].statusCode = 204
               /\ (resp.status = 0 /\ res[e].method # "HEAD" /\ ~absent)
                      => res[e].statusCode = 200
               /\ res[e].headersSent => res[e].commits[1].statusCode = res[e].statusCode

C8_Witness ==
    \E e \in Exchanges :
        /\ pc[e] = "Written"
        /\ ~entry[e].headersSent
        /\ response[e].status = 0
        /\ response[e].body.shape = "text"
        /\ res[e].method = "HEAD"
        /\ res[e].statusCode = 204

\* C9: for text, fixed-binary and byte-stream bodies, a content-type or
\* content-length supplied in response.headers is the value on the transport
\* after the body writer ran; a default is present only where none was supplied.
C9_HandlerHeadersWin ==
    \A e \in Exchanges :
        (/\ options.mode = "listener"
         /\ options.writeResponseBody = "default"
         /\ pc[e] \in {"AfterBody", "Piping", "AwaitFinished", "Written"}
         /\ ~entry[e].headersSent
         /\ response[e].body.shape \in {"text", "buffer", "stream", "webstream"}) =>
            \A k \in {"content-type", "content-length"} :
                k \in DOMAIN response[e].headers =>
                    /\ HasHeader(res[e], k)
                    /\ res[e].headers[k] = response[e].headers[k]
                    /\ res[e].headersSent => res[e].commits[1].headers[k] = response[e].headers[k]

C9_Witness ==
    \E e \in Exchanges :
        /\ pc[e] = "Written"
        /\ ~entry[e].headersSent
        /\ response[e].body.shape = "text"
        /\ DOMAIN response[e].headers = {"content-type"}
        /\ res[e].headers["content-type"] = "text/html"
        /\ res[e].headers["content-length"] = Len(res[e].bytes)

\* C10: for a non-HEAD request and a response that supplies neither
\* content-type nor content-length, a fixed-binary body is handed to the
\* transport byte for byte with content-length its length and content-type
\* application/octet-stream, and a text body as its UTF-8 bytes with
\* content-length the number of those bytes and content-type text/plain.
C10_RoundTrip ==
    \A e \in Exchanges :
        (/\ WroteFresh(e) /\ res[e].method # "HEAD"
         /\ ~HasHeader(entry[e], "content-type") /\ ~HasHeader(entry[e], "content-length")
         /\ "content-type" \notin DOMAIN response[e].headers
         /\ "content-length" \notin DOMAIN response[e].headers) =>
            LET body == response[e].body
            IN /\ body.shape = "buffer" =>
                     /\ res[e].bytes = body.data
                     /\ res[e].headers["content-length"] = Len(body.data)
                     /\ res[e].headers["content-type"] = "application/octet-stream"
               /\ body.shape = "text" =>
                     /\ res[e].bytes = BufferFrom(body.text)
                     /\ body.text = <<111, 233>> => res[e].bytes = <<111, 195, 169>>
                     /\ res[e].headers["content-length"] = Len(res[e].bytes)
                     /\ res[e].headers["content-type"] = "text/plain"
               /\ body.shape \in {"buffer", "text"} =>
                     res[e].commits[1].headers = res[e].headers

C10_Witness ==
    \E e \in Exchanges :
        /\ WroteFresh(e) /\ res[e].method = "GET"
        /\ pc[e] = "Written"
        /\ response[e].body.text = <<111, 233>>
        /\ res[e].bytes = <<111, 195, 169>>
        /\ res[e].headers["content-length"] = 3
        /\ res[e].headers["content-type"] = "text/plain"

RECURSIVE Flatten(_)
\* the bytes of a sequence of chunks, in order
Flatten(chunks) ==
    IF chunks = <<>> THEN <<>> ELSE Head(chunks) \o Flatten(Tail(chunks))

\* the handler returned a byte stream and forwarding was started on it
Forwarded(e) ==
    /\ response[e].body.shape \in {"stream", "webstream"}
    /\ src[e].state \notin {"none", "idle"}

\* C11: while a byte stream is forwarded, a source error aborts the transport
\* and nothing is written past the chunks delivered before the error; a
\* transport that closes prematurely leaves the source destroyed, never
\* flowing once forwarding has settled; either error reaches the error
\* callback exactly once.
C11_StreamErrorAbortsOtherSide ==
    \A e \in Exchanges :
        /\ src[e].state = "errored" =>
              /\ res[e].closed
              /\ error[e] = "source"
              /\ src[e].pos = response[e].body.failAt - 1
              /\ res[e].bytes = Flatten(SubSeq(response[e].body.chunks, 1, src[e].pos))
        /\ src[e].state = "flowing" => pc[e] = "Piping"
        /\ (Forwarded(e) /\ error[e] = "transport") =>
              src[e].state \in {"destroyed", "ended"}
        /\ (Forwarded(e) /\ error[e] \in {"source", "transport"}) =>
              /\ Len(onErrorLog[e]) <= 1
              /\ (pc[e] # "Failed" /\ options.onError # "unset") =>
                    /\ Len(onErrorLog[e]) = 1
                    /\ onErrorLog[e][1].error = error[e]

\* the source failed after one chunk had been forwarded
C11_Witness ==
    \E e \in Exchanges :
        /\ src[e].state = "errored"
        /\ src[e].pos = 1
        /\ res[e].closed
        /\ res[e].bytes = <<1, 101>>
        /\ Len(onErrorLog[e]) = 1
        /\ onErrorLog[e][1].error = "source"

\* the handler returned a body that is none of absent, text, binary, stream,
\* and the built-in body writer is in use
UnknownBody(e) ==
    /\ response[e].defined
    /\ response[e].body.shape = "unknown"
    /\ options.writeResponseBody = "default"

\* the catch block ran the finalizer's synchronous part
CleanedUp(e) ==
    \/ pc[e] \in {"AwaitCleanUp", "Finalized"}
    \/ pc[e] = "Rejected" /\ rejected[e] = "transport"

\* C12: a body of unknown type makes writeResponseBody fail with the body-type
\* error unless writeResponse found the transport already ended; no body byte
\* is written, the error callback gets that error and the returned response
\* once, and when no header had been sent the finalizer leaves status 500 and
\* no header, the staged status and headers being gone.
C12_UnknownBodyFails ==
    \A e \in Exchanges :
        UnknownBody(e) =>
            /\ pc[e] \in {"AfterBody", "Piping", "AwaitFinished", "Written"} =>
                  entry[e].writableEnded
            /\ error[e] = "body-type" =>
                  /\ res[e].bytes = <<>>
                  /\ Len(onErrorLog[e]) <= 1
                  /\ (pc[e] # "Failed" /\ options.onError # "unset") =>
                        /\ Len(onErrorLog[e]) = 1
                        /\ onErrorLog[e][1].error = "body-type"
                        /\ onErrorLog[e][1].response = response[e]
                  /\ (CleanedUp(e) /\ onErrorLog[e] # <<>> /\ ~onErrorLog[e][1].headersSent) =>
                        /\ log[e] = <<"parseRequest", "handlerFn", "writeResponse",
                                      "onError", "cleanUpResponse">>
                        /\ res[e].writableEnded
                        /\ res[e].statusCode = 500
                        /\ res[e].headers = <<>>
                        /\ res[e].commits = <<[statusCode |-> 500, headers |-> <<>>]>>

\* status 201 and two headers were staged, then removed by the finalizer
C12_Witness ==
    \E e \in Exchanges :
        /\ UnknownBody(e)
        /\ response[e].status = 201
        /\ DOMAIN response[e].headers = {"content-type", "content-length"}
        /\ pc[e] = "Finalized"
        /\ error[e] = "body-type"
        /\ Len(onErrorLog[e]) = 1
        /\ res[e].statusCode = 500
        /\ res[e].headers = <<>>
        /\ res[e].bytes = <<>>

\* headers sent, ended and finished
IsFinalized(r) == r.headersSent /\ r.writableEnded /\ r.writableFinished

\* what the core can change on a transport (a 'close' is the connection's doing)
CoreView(r) == [r EXCEPT !.closed = FALSE, !.writableFinished = FALSE]

\* C13: under direct calls, a writeResponse entered on a finalized transport
\* never reaches the body writer, never rejects, and leaves the status, the
\* headers, the bytes written, the committed header block and every flag of
\* the transport as they were at entry, whatever response it is passed.
C13_WriteOnFinalizedIsNoOp ==
    \A e \in Exchanges :
        (calls[e].fn = "writeResponse" /\ pc[e] # "Handled" /\ IsFinalized(entry[e])) =>
            /\ pc[e] \in {"AwaitFinished", "Direct"}
            /\ calls[e].last # "rejected"
            /\ pc[e] = "Direct" => calls[e].last = "resolved"
            /\ CoreView(res[e]) = CoreView(entry[e])
            /\ res[e].writableFinished

\* a response with status 201 and a text body was passed for a finalized
\* transport, which keeps the status it had
C13_Witness ==
    \E e \in Exchanges :
        /\ calls[e].fn = "writeResponse"
        /\ pc[e] = "AwaitFinished"
        /\ IsFinalized(entry[e])
        /\ response[e].defined
        /\ response[e].status = 201
        /\ response[e].headers # <<>>
        /\ response[e].body.shape = "text"
        /\ res[e].statusCode # 201
        /\ res[e] = entry[e]

\* C14: under direct calls, a cleanUpResponse entered on a finalized transport
\* never rejects and changes nothing; a cleanUpResponse entered after an
\* earlier cleanUpResponse leaves status, headers, bytes, committed header
\* block and ended flag as it found them; end is never called on an ended
\* transport.
C14_CleanUpIdempotent ==
    \A e \in Exchanges :
        /\ (calls[e].fn = "cleanUpResponse" /\ pc[e] # "CleanUp") =>
              /\ IsFinalized(entry[e]) =>
                    /\ calls[e].last # "rejected"
                    /\ CoreView(res[e]) = CoreView(entry[e])
              /\ calls[e].cleanUp >= 2 =>
                    /\ entry[e].writableEnded
                    /\ CoreView(res[e]) = CoreView(entry[e])
        /\ ~res[e].endAfterEnd
        /\ res[e].endCalls <= 1

\* the second of two cleanUpResponse calls has completed
C14_Witness ==
    \E e \in Exchanges :
        /\ calls[e].fn = "cleanUpResponse"
        /\ calls[e].cleanUp = 2
        /\ calls[e].write = 0
        /\ pc[e] = "Direct"
        /\ calls[e].last = "resolved"
        /\ res[e].statusCode = 500
        /\ res[e].endCalls = 1

\* C15: in the catch block, the finalizer forces 500 and an empty header set
\* exactly when no header had been sent at its entry; otherwise status,
\* headers and committed header block stay as they were; in both cases no
\* byte is added and end is called exactly when the transport was not ended.
C15_CleanUpFrame ==
    \A e \in Exchanges :
        CleanedUp(e) =>
            /\ res[e].writableEnded
            /\ res[e].bytes = entry[e].bytes
            /\ res[e].lateSet = entry[e].lateSet
            /\ res[e].endCalls = entry[e].endCalls + (IF entry[e].writableEnded THEN 0 ELSE 1)
            /\ IF entry[e].headersSent
               THEN /\ res[e].statusCode = entry[e].statusCode
                    /\ res[e].headers = entry[e].headers
                    /\ res[e].commits = entry[e].commits
               ELSE /\ res[e].statusCode = 500
                    /\ res[e].headers = <<>>
                    /\ res[e].commits = <<[statusCode |-> 500, headers |-> <<>>]>>

\* the finalizer found headers sent and a chunk written, and only ended
C15_Witness ==
    \E e \in Exchanges :
        /\ CleanedUp(e)
        /\ entry[e].headersSent
        /\ ~entry[e].writableEnded
        /\ entry[e].bytes = <<1, 101>>
        /\ entry[e].headers # <<>>
        /\ res[e].statusCode = 200
        /\ res[e].headers = entry[e].headers
        /\ res[e].writableEnded

\* the orders in which requestListener can have entered its steps
TrySteps == {<<"parseRequest">>, <<"parseRequest", "handlerFn">>,
             <<"parseRequest", "handlerFn", "writeResponse">>}
CatchSteps == {<<>>, <<"onError">>, <<"onError", "cleanUpResponse">>}
            \cup (IF options.onError = "unset" THEN {<<"cleanUpResponse">>} ELSE {})

\* C16: the steps of an exchange are entered in the order parseRequest,
\* handlerFn, writeResponse, then (on a failure only) onError, cleanUpResponse:
\* the handler is invoked with an adapted request, writeResponse is never
\* entered while the handler runs or after it raised, the finalizer is entered
\* only after the error callback (when one is set) has returned, and an
\* exchange that is Written has run neither.
C16_StepOrder ==
    \A e \in Exchanges :
        /\ log[e] \in {<<>>} \cup {t \o c : t \in TrySteps, c \in CatchSteps}
        /\ InLog(e, "handlerFn") => (request[e] = "defined" /\ error[e] # "parse")
        /\ InLog(e, "writeResponse") =>
              /\ error[e] # "handler"
              /\ pc[e] \notin {"Received", "Adapted", "Handling", "Handled"}
        /\ error[e] \in {"parse", "handler"} => ~InLog(e, "writeResponse")
        /\ (InLog(e, "cleanUpResponse") /\ options.onError # "unset") =>
              /\ Len(onErrorLog[e]) = 1
              /\ rejected[e] # "onError"
        /\ pc[e] = "CleanUp" => ~InLog(e, "cleanUpResponse")
        /\ pc[e] = "Written" =>
              /\ log[e] = <<"parseRequest", "handlerFn", "writeResponse">>
              /\ onErrorLog[e] = <<>>
              /\ error[e] = "none"

\* a failed write: all five steps were entered, in order
C16_Witness ==
    \E e \in Exchanges :
        /\ log[e] = <<"parseRequest", "handlerFn", "writeResponse", "onError", "cleanUpResponse">>
        /\ pc[e] = "Finalized"
        /\ Len(onErrorLog[e]) = 1

\* C19: whenever writeResponse is waiting for the terminal event, or has
\* completed normally, the transport is ended: a body writer that returned
\* without ending it had the transport ended by writeResponse.
C19_WriteEndsBeforeWaiting ==
    \A e \in Exchanges :
        /\ pc[e] = "AwaitFinished" => res[e].writableEnded
        /\ pc[e] = "Written" => (res[e].writableEnded /\ res[e].endCalls = 1)

\* a replacement writer wrote a chunk and returned; writeResponse ended the
\* transport and its wait was over
C19_Witness ==
    \E e \in Exchanges :
        /\ options.writeResponseBody = "custom"
        /\ pc[e] = "Written"
        /\ res[e].bytes = <<7>>
        /\ res[e].writableEnded
        /\ res[e].endCalls = 1

\* C17: under direct calls of writeResponse (built-in body writer) and
\* cleanUpResponse, in every reachable state no status or header has been set
\* after the headers were sent and end has not been called on an ended
\* transport, and no step turns headersSent or writableEnded back to false.
C17_NoLateMutation ==
    /\ [](\A e \in Exchanges : ~res[e].lateSet /\ ~res[e].endAfterEnd)
    /\ [][\A e \in Exchanges :
            /\ res[e].headersSent => res'[e].headersSent
            /\ res[e].writableEnded => res'[e].writableEnded]_vars

\* a stream is being forwarded on a transport whose headers the caller had
\* sent without a content-type
C17_Witness ==
    \E e \in Exchanges :
        /\ calls[e].fn = "writeResponse"
        /\ pc[e] = "Piping"
        /\ entry[e].headersSent
        /\ ~HasHeader(res[e], "content-type")
        /\ res[e].bytes # <<>>

\* C18: once requestListener has settled for an exchange whose handler
\* returned a byte stream, the stream has been read to its end with every
\* chunk handed to the transport, or it has been destroyed (by pipeline, or by
\* its own error).
C18_StreamDrainedOrDiscarded ==
    \A e \in Exchanges :
        (Settled(e) /\ response[e].body.shape \in {"stream", "webstream"}) =>
            \/ /\ src[e].state = "ended"
               /\ src[e].pos = Len(response[e].body.chunks)
               /\ res[e].bytes = Flatten(response[e].body.chunks)
            \/ src[e].state \in {"destroyed", "errored"}

RECURSIVE WriteAll(_, _)
\* the transport after the chunks were written to it one by one
WriteAll(r, chunks) ==
    IF chunks = <<>> THEN r ELSE WriteAll(Write(r, Head(chunks)), Tail(chunks))

\* what one exchange leaves on its transport and hands to the error callback
\* when it runs alone from a fresh transport, on a connection that stays up
SoloOutcome(m, resp, raised) ==
    IF raised
    THEN [r |-> CleanUpSync(NewResponse(m)), errors |-> <<"handler">>]
    ELSE LET w == WriteResponseBody(StageResponse(NewResponse(m), resp), resp.body)
         IN CASE w.out = "returned" -> [r |-> w.r, errors |-> <<>>]
              [] w.out = "throw" -> [r |-> CleanUpSync(w.r), errors |-> <<"body-type">>]
              [] OTHER ->
                   IF resp.body.failAt = 0
                   THEN [r |-> End(WriteAll(w.r, resp.body.chunks), <<>>), errors |-> <<>>]
                   ELSE [r |-> CleanUpSync(WriteAll(w.r,
                                   SubSeq(resp.body.chunks, 1, resp.body.failAt - 1))),
                         errors |-> <<"source">>]

\* everything requestListener holds for one exchange
Local(e) == <<pc[e], res[e], request[e], response[e], error[e], rejected[e],
              src[e], onErrorLog[e], log[e], entry[e]>>

\* C20: with all exchanges in flight and their steps interleaved, an exchange
\* that has settled has the status, headers, committed header block, bytes
\* and error-callback calls that it has when it runs alone, and every step
\* changes the variables of one exchange only.
C20_ExchangesIndependent ==
    /\ [](\A e \in Exchanges :
            Settled(e) =>
                LET o == SoloOutcome(res[e].method, response[e], error[e] = "handler")
                IN /\ res[e].statusCode = o.r.statusCode
                   /\ res[e].headers = o.r.headers
                   /\ res[e].commits = o.r.commits
                   /\ res[e].bytes = o.r.bytes
                   /\ res[e].writableEnded = o.r.writableEnded
                   /\ [i \in DOMAIN onErrorLog[e] |-> onErrorLog[e][i].error] = o.errors
                   /\ \A i \in DOMAIN onErrorLog[e] :
                         onErrorLog[e][i].response = response[e])
    /\ [][\A e \in Exchanges :
            Local(e)' # Local(e) => \A f \in Exchanges \ {e} : Local(f)' = Local(f)]_vars

\* one exchange streamed its body in full while another one failed
C20_Witness ==
    \E e, f \in Exchanges :
        /\ e # f
        /\ pc[e] = "Written"
        /\ res[e].bytes = <<1, 101, 2, 102>>
        /\ onErrorLog[e] = <<>>
        /\ pc[f] = "Finalized"
        /\ res[f].statusCode = 500
        /\ response[f].status = 201
        /\ Len(onErrorLog[f]) = 1

====
